---------------------------- MODULE Spec2Model ----------------------------
(***************************************************************************)
(* A model of the complex property of go-scim (src/core/prop/complex.go):  *)
(* an ordered, name-indexed aggregate of child properties with a cached    *)
(* 64-bit FNV-1a structural hash; and of the schema Attribute (package     *)
(* core) with its derivations and its deep copy, on a heap of objects.     *)
(*                                                                         *)
(* Strings are TLA+ strings; where the code looks at their bytes           *)
(* (strings.ToLower, []byte(name)) the model goes through Bytes, the ASCII *)
(* encoding of every string the model uses.  A uint64 is a tuple of four   *)
(* 16-bit limbs, least significant first, so that the arithmetic modulo    *)
(* 2^64 is exact.                                                          *)
(***************************************************************************)
EXTENDS Integers, Sequences, FiniteSets, TLC

VARIABLES props, last, mutated, heap

vars == <<props, last, mutated, heap>>

(***************************************************************************)
(* Bounds of the model.                                                    *)
(***************************************************************************)
\* The largest number of keys of a mapping handed to Add or Replace.
MaxKeys == 2

(***************************************************************************)
(* Strings and their bytes.                                                *)
(***************************************************************************)
Bytes(s) ==
  CASE s = "" -> << >>
    [] s = "name" -> <<110, 97, 109, 101>>
    [] s = "member" -> <<109, 101, 109, 98, 101, 114>>
    [] s = "givenName" -> <<103, 105, 118, 101, 110, 78, 97, 109, 101>>
    [] s = "givenname" -> <<103, 105, 118, 101, 110, 110, 97, 109, 101>>
    [] s = "familyName" -> <<102, 97, 109, 105, 108, 121, 78, 97, 109, 101>>
    [] s = "FAMILYNAME" -> <<70, 65, 77, 73, 76, 89, 78, 65, 77, 69>>
    [] s = "familyname" -> <<102, 97, 109, 105, 108, 121, 110, 97, 109, 101>>
    [] s = "nickName" -> <<110, 105, 99, 107, 78, 97, 109, 101>>
    [] s = "nickname" -> <<110, 105, 99, 107, 110, 97, 109, 101>>
    [] s = "value" -> <<118, 97, 108, 117, 101>>
    [] s = "display" -> <<100, 105, 115, 112, 108, 97, 121>>
    [] s = "Ada" -> <<65, 100, 97>>
    [] s = "Lovelace" -> <<76, 111, 118, 101, 108, 97, 99, 101>>
    [] s = "King" -> <<75, 105, 110, 103>>
    [] s = "42" -> <<52, 50>>

KnownStrings ==
  {"", "name", "member", "givenName", "givenname", "familyName", "FAMILYNAME",
   "familyname", "nickName", "nickname", "value", "display", "Ada", "Lovelace",
   "King", "42"}

\* The string with the given bytes.
StringOf(bs) == CHOOSE s \in KnownStrings : Bytes(s) = bs

\* unicode.ToLower on an ASCII byte: 'A'..'Z' move to 'a'..'z'.
LowerByte(b) == IF b >= 65 /\ b <= 90 THEN b + 32 ELSE b

\* strings.ToLower
ToLower(s) ==
  LET bs == Bytes(s)
  IN StringOf([i \in 1..Len(bs) |-> LowerByte(bs[i])])

(***************************************************************************)
(* hash/fnv: the 64-bit FNV-1a hash, on four 16-bit limbs.                 *)
(***************************************************************************)
Limb == 2^16

Zero64 == <<0, 0, 0, 0>>

\* offset64 = 14695981039346656037 = 0xcbf29ce484222325
offset64 == <<8997, 33826, 40164, 52210>>

\* prime64 = 1099511628211 = 2^40 + 435
prime64Low == 435

\* Bit k of a.
Bit(a, k) == (a \div (2^k)) % 2

\* a ^ b on 4-bit numbers, bit by bit.
XorNibble ==
  [a \in 0..15, b \in 0..15 |->
       ((Bit(a, 0) + Bit(b, 0)) % 2)     + ((Bit(a, 1) + Bit(b, 1)) % 2) * 2
     + ((Bit(a, 2) + Bit(b, 2)) % 2) * 4 + ((Bit(a, 3) + Bit(b, 3)) % 2) * 8]

\* a ^ b on bytes.
XorByte(a, b) == XorNibble[a \div 16, b \div 16] * 16 + XorNibble[a % 16, b % 16]

\* hash ^= uint64(c); hash *= prime64 (modulo 2^64)
fnvByte(h, c) ==
  LET x0 == (h[1] \div 256) * 256 + XorByte(h[1] % 256, c)
      s0 == x0 * prime64Low
      s1 == h[2] * prime64Low + (s0 \div Limb)
      s2 == h[3] * prime64Low + x0 * 256 + (s1 \div Limb)
      s3 == h[4] * prime64Low + h[2] * 256 + (s2 \div Limb)
  IN <<s0 % Limb, s1 % Limb, s2 % Limb, s3 % Limb>>

Uint64 == [1..4 -> 0..(Limb - 1)]

Byte == 0..255

\* Write: the bytes are hashed in order, first to last (the sequence is
\* split in halves, the first half hashed before the second).
fnvWrite[h \in Uint64, bs \in Seq(Byte)] ==
  IF Len(bs) = 0 THEN h
  ELSE IF Len(bs) = 1 THEN fnvByte(h, bs[1])
  ELSE fnvWrite[fnvWrite[h, SubSeq(bs, 1, Len(bs) \div 2)],
                SubSeq(bs, Len(bs) \div 2 + 1, Len(bs))]

\* binary.LittleEndian.PutUint64
PutUint64(h) ==
  <<h[1] % 256, h[1] \div 256, h[2] % 256, h[2] \div 256,
    h[3] % 256, h[3] \div 256, h[4] % 256, h[4] \div 256>>

(***************************************************************************)
(* Generic values (what the JSON decoder hands to Add and Replace) and     *)
(* errors.                                                                 *)
(***************************************************************************)
Null == [kind |-> "null", val |-> ""]
StringValue(s) == [kind |-> "string", val |-> s]
IntegerValue(s) == [kind |-> "integer", val |-> s]
SequenceValue == [kind |-> "sequence", val |-> ""]
MappingValue(m) == [kind |-> "mapping", val |-> m]

\* What %T prints for the value.
GoType(value) ==
  CASE value.kind = "null" -> "<nil>"
    [] value.kind = "string" -> "string"
    [] value.kind = "integer" -> "int"
    [] value.kind = "sequence" -> "[]interface {}"
    [] value.kind = "mapping" -> "map[string]interface {}"

NoError == [kind |-> "nil", type |-> "", path |-> ""]
InvalidValue(type, path) == [kind |-> "InvalidValue", type |-> type, path |-> path]


(***************************************************************************)
(* Attributes.  An attribute is a record of the schema fields the property *)
(* engine reads; Identity is the metadata flag marking a sub-attribute as  *)
(* a comparison key, Path the attribute's schema path.                     *)
(***************************************************************************)
SubAttribute(name, type, identity, path) ==
  [Name |-> name, Type |-> type, MultiValued |-> FALSE, Identity |-> identity,
   Path |-> path, SubAttributes |-> << >>]

\* name: givenName and familyName, no identity sub-attribute.
nameAttr ==
  [Name |-> "name", Type |-> "complex", MultiValued |-> FALSE,
   Identity |-> FALSE, Path |-> "name",
   SubAttributes |-> <<SubAttribute("givenName", "string", FALSE, "name.givenName"),
                       SubAttribute("familyName", "string", FALSE, "name.familyName")>>]

\* member: value is the identity sub-attribute, display is not.
memberAttr ==
  [Name |-> "member", Type |-> "complex", MultiValued |-> FALSE,
   Identity |-> FALSE, Path |-> "member",
   SubAttributes |-> <<SubAttribute("value", "string", TRUE, "member.value"),
                       SubAttribute("display", "string", FALSE, "member.display")>>]

Attributes == {nameAttr, memberAttr}

\* attr.Equals(other): schema equality.
AttrEquals(a, b) == a = b

\* attr.HasIdentitySubAttributes()
HasIdentitySubAttributes(attr) ==
  \E i \in 1..Len(attr.SubAttributes) : attr.SubAttributes[i].Identity

(***************************************************************************)
(* Leaf properties (string, integer, ...): a single scalar value.          *)
(***************************************************************************)
NewLeaf(attr) == [attr |-> attr, v |-> Null, touched |-> FALSE]

LeafIsUnassigned(leaf) == leaf.v = Null

LeafPresent(leaf) == leaf.v # Null

LeafRaw(leaf) == leaf.v

\* A digest of the canonical value; 0 when there is none.
LeafHash(leaf) ==
  IF leaf.v = Null THEN Zero64 ELSE fnvWrite[offset64, Bytes(leaf.v.val)]

\* Add: nil is ignored; a scalar of the attribute's type is stored and the
\* leaf marked touched; anything else is an InvalidValue and changes nothing.
LeafAdd(leaf, value) ==
  IF value = Null
  THEN [prop |-> leaf, err |-> NoError]
  ELSE IF value.kind = leaf.attr.Type
       THEN [prop |-> [leaf EXCEPT !.v = value, !.touched = TRUE], err |-> NoError]
       ELSE [prop |-> leaf, err |-> InvalidValue(GoType(value), leaf.attr.Path)]

\* Delete: clears the value, marks touched if there was one; never fails.
LeafDelete(leaf) ==
  [prop |-> [leaf EXCEPT !.v = Null, !.touched = leaf.touched \/ leaf.v # Null],
   err |-> NoError]

(***************************************************************************)
(* The complex property.                                                   *)
(***************************************************************************)
\* A name index under the names as the schema spells them.
NewNameIndexAsSpelled(attr) ==
  [k \in {attr.SubAttributes[i].Name : i \in 1..Len(attr.SubAttributes)} |->
     CHOOSE i \in 1..Len(attr.SubAttributes) : attr.SubAttributes[i].Name = k]

\* nameIndex[strings.ToLower(subAttribute.Name())] = len(subProps) - 1
\* (positions are counted from 1 here).
NewNameIndex(attr) ==
  [k \in {ToLower(attr.SubAttributes[i].Name) : i \in 1..Len(attr.SubAttributes)} |->
     CHOOSE i \in 1..Len(attr.SubAttributes) :
       /\ ToLower(attr.SubAttributes[i].Name) = k
       /\ \A j \in 1..Len(attr.SubAttributes) :
            ToLower(attr.SubAttributes[j].Name) = k => j <= i]

NewComplex(attr) ==
  [attr |-> attr,
   subProps |-> [i \in 1..Len(attr.SubAttributes) |-> NewLeaf(attr.SubAttributes[i])],
   nameIndex |-> NewNameIndex(attr),
   hash |-> Zero64]

CountChildren(p) == Len(p.subProps)

IsUnassigned(p) == \A i \in 1..Len(p.subProps) : LeafIsUnassigned(p.subProps[i])

Present(p) == \E i \in 1..Len(p.subProps) : LeafPresent(p.subProps[i])

\* A Touched() that looks at the first child only.
TouchedFirstChild(p) == p.subProps[1].touched

Touched(p) == \E i \in 1..Len(p.subProps) : p.subProps[i].touched

\* A Raw() that leaves the unassigned children out.
RawAssignedOnly(p) ==
  [k \in {p.subProps[i].attr.Name : i \in {j \in 1..Len(p.subProps) : ~LeafIsUnassigned(p.subProps[j])}} |->
     LeafRaw(p.subProps[CHOOSE i \in 1..Len(p.subProps) : p.subProps[i].attr.Name = k])]

\* values[child.Attribute().Name()] = child.Raw(), for every child.
Raw(p) ==
  [k \in {p.subProps[i].attr.Name : i \in 1..Len(p.subProps)} |->
     LeafRaw(p.subProps[CHOOSE i \in 1..Len(p.subProps) :
                          /\ p.subProps[i].attr.Name = k
                          /\ \A j \in 1..Len(p.subProps) :
                               p.subProps[j].attr.Name = k => j <= i])]

\* What one child feeds into the hash: nothing when the attribute has
\* identity sub-attributes and this child is not one; else its name and,
\* when it is assigned, the 8 bytes of its hash.
ChildHashInput(hasIdentity, child) ==
  IF hasIdentity /\ ~child.attr.Identity
  THEN << >>
  ELSE Bytes(child.attr.Name) \o
       (IF LeafIsUnassigned(child) THEN << >> ELSE PutUint64(LeafHash(child)))

RECURSIVE HashInput(_, _, _)
HashInput(hasIdentity, subProps, i) ==
  IF i > Len(subProps) THEN << >>
  ELSE ChildHashInput(hasIdentity, subProps[i]) \o HashInput(hasIdentity, subProps, i + 1)

\* The digest computeHash stores.
Digest(p) ==
  fnvWrite[offset64, HashInput(HasIdentitySubAttributes(p.attr), p.subProps, 1)]

computeHash(p) == [p EXCEPT !.hash = Digest(p)]

\* Hash(): computes the hash when the cached one is 0.
HashCall(p) == IF p.hash = Zero64 THEN computeHash(p) ELSE p

Hash(p) == HashCall(p).hash

errIncompatibleValue(p, value) == InvalidValue(GoType(value), p.attr.Path)

\* A turn of Add's loop that looks the key up as it is spelled.
AddEntryExactCase(p, key, v) ==
  IF key \notin DOMAIN p.nameIndex
  THEN [prop |-> p, err |-> NoError]
  ELSE LET r == LeafAdd(p.subProps[p.nameIndex[key]], v)
       IN [prop |-> [p EXCEPT !.subProps[p.nameIndex[key]] = r.prop], err |-> r.err]

\* One turn of Add's loop: an unknown key is skipped, a known one is handed
\* to the child's Add.
AddEntry(p, key, v) ==
  IF ToLower(key) \notin DOMAIN p.nameIndex
  THEN [prop |-> p, err |-> NoError]
  ELSE LET r == LeafAdd(p.subProps[p.nameIndex[ToLower(key)]], v)
       IN [prop |-> [p EXCEPT !.subProps[p.nameIndex[ToLower(key)]] = r.prop],
           err |-> r.err]

\* The loop of Add over the mapping's entries, in the order the map
\* iteration yields them; a child's error ends the call before the hash is
\* recomputed.
RECURSIVE AddEntries(_, _, _)
AddEntries(p, m, order) ==
  IF order = << >>
  THEN [prop |-> computeHash(p), err |-> NoError]
  ELSE LET r == AddEntry(p, Head(order), m[Head(order)])
       IN IF r.err # NoError
          THEN r
          ELSE AddEntries(r.prop, m, Tail(order))

\* An Add that takes what is no mapping for a mapping without keys.
AddIgnoringNonMapping(p, value, order) ==
  IF value = Null
  THEN [prop |-> p, err |-> NoError]
  ELSE IF value.kind # "mapping"
       THEN [prop |-> computeHash(p), err |-> NoError]
       ELSE AddEntries(p, value.val, order)

Add(p, value, order) ==
  IF value = Null
  THEN [prop |-> p, err |-> NoError]
  ELSE IF value.kind # "mapping"
       THEN [prop |-> p, err |-> errIncompatibleValue(p, value)]
       ELSE AddEntries(p, value.val, order)

RECURSIVE DeleteFrom(_, _)
DeleteFrom(p, i) ==
  IF i > Len(p.subProps)
  THEN [prop |-> computeHash(p), err |-> NoError]
  ELSE LET r == LeafDelete(p.subProps[i])
       IN IF r.err # NoError
          THEN [prop |-> p, err |-> r.err]
          ELSE DeleteFrom([p EXCEPT !.subProps[i] = r.prop], i + 1)

\* A Delete that clears every child itself and marks it touched, whether
\* or not it held a value.
DeleteMarkingTouched(p) ==
  [prop |-> computeHash([p EXCEPT !.subProps =
                           [i \in 1..Len(p.subProps) |->
                              [p.subProps[i] EXCEPT !.v = Null, !.touched = TRUE]]]),
   err |-> NoError]

\* A Delete that clears every child and leaves the cached hash as it was.
DeleteWithoutComputeHash(p) ==
  [prop |-> [p EXCEPT !.subProps =
               [i \in 1..Len(p.subProps) |-> LeafDelete(p.subProps[i]).prop]],
   err |-> NoError]

Delete(p) == DeleteFrom(p, 1)

\* The error the Delete of the child in position i returns, when that child
\* is a property whose Delete fails.
DeleteError(i) == [kind |-> "Delete", at |-> i]

\* subProp.Delete() where the children at the positions failing are
\* properties whose Delete returns an error and changes nothing (the
\* Property interface lets Delete fail; the leaves above never do).
ChildDelete(p, i, failing) ==
  IF i \in failing
  THEN [prop |-> p.subProps[i], err |-> DeleteError(i)]
  ELSE LeafDelete(p.subProps[i])

\* Delete's loop from position i on, with such children.
RECURSIVE DeleteFailing(_, _, _)
DeleteFailing(p, i, failing) ==
  IF i > Len(p.subProps)
  THEN [prop |-> computeHash(p), err |-> NoError]
  ELSE LET r == ChildDelete(p, i, failing)
       IN IF r.err # NoError
          THEN [prop |-> p, err |-> r.err]
          ELSE DeleteFailing([p EXCEPT !.subProps[i] = r.prop], i + 1, failing)

\* A Replace without the test for nil.
ReplaceWithoutNilTest(p, value, order) ==
  LET d == Delete(p)
  IN IF d.err # NoError THEN d ELSE Add(d.prop, value, order)

\* Replace: nil is ignored; Delete, then Add, each error returned as it is.
\* (The deferred recover turns a panic into errIncompatibleValue; FNV's
\* Write never fails, so computeHash never panics.)
Replace(p, value, order) ==
  IF value = Null
  THEN [prop |-> p, err |-> NoError]
  ELSE LET d == Delete(p)
       IN IF d.err # NoError THEN d ELSE Add(d.prop, value, order)

Matches(p, another) ==
  /\ AttrEquals(p.attr, another.attr)
  /\ CountChildren(p) = CountChildren(another)
  /\ Hash(p) = Hash(another)

(***************************************************************************)
(* The container surface of the complex property.                          *)
(***************************************************************************)
\* The error a visitor returns at the child in position i.
VisitorError(i) == [kind |-> "Visitor", at |-> i]

\* callback(i, prop): the visitor is given by the positions at which it
\* returns an error; at the others it returns nil.
Callback(failing, i) == IF i \in failing THEN VisitorError(i) ELSE NoError

\* A ForEachChild that keeps on after a visitor's error and returns the last
\* one.
RECURSIVE ForEachChildToTheEnd(_, _, _, _)
ForEachChildToTheEnd(p, failing, i, r) ==
  IF i > Len(p.subProps)
  THEN r
  ELSE ForEachChildToTheEnd(p, failing, i + 1,
         [visited |-> Append(r.visited, i),
          err |-> IF Callback(failing, i) # NoError THEN Callback(failing, i) ELSE r.err])

\* The loop of ForEachChild from position i on: the positions visited, in
\* order, and the error returned.
RECURSIVE ForEachChildFrom(_, _, _, _)
ForEachChildFrom(p, failing, i, r) ==
  IF i > Len(p.subProps)
  THEN r
  ELSE IF Callback(failing, i) # NoError
       THEN [visited |-> Append(r.visited, i), err |-> Callback(failing, i)]
       ELSE ForEachChildFrom(p, failing, i + 1, [r EXCEPT !.visited = Append(@, i)])

ForEachChild(p, failing) ==
  ForEachChildFrom(p, failing, 1, [visited |-> << >>, err |-> NoError])

\* NewChild(): the sentinel.
NewChild(p) == -1

\* Compact() does nothing.
Compact(p) == p

\* ChildAtIndex(index): the position of the child, 0 for nil (an index that
\* is no string, or names no sub-attribute).
ChildAtIndex(p, index) ==
  IF index.kind # "string"
  THEN 0
  ELSE IF ToLower(index.val) \notin DOMAIN p.nameIndex
       THEN 0
       ELSE p.nameIndex[ToLower(index.val)]

\* errors.Internal("incompatible operation")
Internal(detail) == [kind |-> "Internal", detail |-> detail]

\* An error for the relational operations that blames the value.
errInvalidOp(p) == InvalidValue("", p.attr.Path)

errIncompatibleOp(p) == Internal("incompatible operation")

EqualsTo(p, value) == [ret |-> FALSE, err |-> errIncompatibleOp(p)]
StartsWith(p, value) == [ret |-> FALSE, err |-> errIncompatibleOp(p)]
EndsWith(p, value) == [ret |-> FALSE, err |-> errIncompatibleOp(p)]
Contains(p, value) == [ret |-> FALSE, err |-> errIncompatibleOp(p)]
GreaterThan(p, value) == [ret |-> FALSE, err |-> errIncompatibleOp(p)]
LessThan(p, value) == [ret |-> FALSE, err |-> errIncompatibleOp(p)]

RelationalOps == {"EqualsTo", "StartsWith", "EndsWith", "Contains", "GreaterThan", "LessThan"}

\* The relational operation of the given name.
Relational(op, p, value) ==
  CASE op = "EqualsTo" -> EqualsTo(p, value)
    [] op = "StartsWith" -> StartsWith(p, value)
    [] op = "EndsWith" -> EndsWith(p, value)
    [] op = "Contains" -> Contains(p, value)
    [] op = "GreaterThan" -> GreaterThan(p, value)
    [] op = "LessThan" -> LessThan(p, value)

(***************************************************************************)
(* Attributes as the Go heap holds them (package core).  A *Attribute is   *)
(* the position of an Attribute in h.attrs, a slice the position of its    *)
(* backing array in h.arrays, a *Metadata the position of a Metadata in    *)
(* h.metas; 0 is nil.  Two pointers or two slices share what they point to *)
(* exactly when they are the same position.                                *)
(***************************************************************************)
NoHeap == [attrs |-> << >>, arrays |-> << >>, metas |-> << >>]

TypeString == "string"
MutabilityReadWrite == "readWrite"
ReturnedDefault == "default"
UniquenessNone == "none"

\* The elements of a slice; a nil slice has none.
Elements(h, slice) == IF slice = 0 THEN << >> ELSE h.arrays[slice]

\* new / make: the heap with one more object, and its position.
NewAttribute(h, node) ==
  [heap |-> [h EXCEPT !.attrs = Append(@, node)], ret |-> Len(h.attrs) + 1]

NewArray(h, elements) ==
  [heap |-> [h EXCEPT !.arrays = Append(@, elements)], ret |-> Len(h.arrays) + 1]

NewMetadata(h, metadata) ==
  [heap |-> [h EXCEPT !.metas = Append(@, metadata)], ret |-> Len(h.metas) + 1]

\* setDefaults: the empty Type, Mutability, Returned and Uniqueness of the
\* receiver are filled in; nothing happens on nil.
setDefaults(h, attr) ==
  IF attr = 0
  THEN h
  ELSE LET a == h.attrs[attr]
       IN [h EXCEPT !.attrs[attr] =
             [a EXCEPT !.Type = IF a.Type = "" THEN TypeString ELSE a.Type,
                       !.Mutability = IF a.Mutability = "" THEN MutabilityReadWrite ELSE a.Mutability,
                       !.Returned = IF a.Returned = "" THEN ReturnedDefault ELSE a.Returned,
                       !.Uniqueness = IF a.Uniqueness = "" THEN UniquenessNone ELSE a.Uniqueness]]

\* A GoesBy that compares the names as they are spelled.
GoesByAsSpelled(h, attr, name) == attr # 0 /\ name = h.attrs[attr].Name

GoesBy(h, attr, name) == attr # 0 /\ ToLower(name) = ToLower(h.attrs[attr].Name)

\* A ToSingleValued that clears the flag in the receiver.
ToSingleValuedInPlace(h, attr) ==
  IF attr = 0
  THEN [heap |-> h, ret |-> 0]
  ELSE [heap |-> [h EXCEPT !.attrs[attr].MultiValued = FALSE], ret |-> attr]

\* ToSingleValued: nil for nil, the receiver when it is not multi-valued,
\* else a new Attribute with the receiver's fields (its slices and its
\* Metadata pointer among them) and MultiValued false.
ToSingleValued(h, attr) ==
  IF attr = 0
  THEN [heap |-> h, ret |-> 0]
  ELSE IF ~h.attrs[attr].MultiValued
       THEN [heap |-> h, ret |-> attr]
       ELSE LET a == h.attrs[attr]
            IN NewAttribute(h,
                 [Name |-> a.Name,
                  Description |-> a.Description,
                  Type |-> a.Type,
                  SubAttributes |-> a.SubAttributes,
                  CanonicalValues |-> a.CanonicalValues,
                  MultiValued |-> FALSE,
                  Required |-> a.Required,
                  CaseExact |-> a.CaseExact,
                  Mutability |-> a.Mutability,
                  Returned |-> a.Returned,
                  Uniqueness |-> a.Uniqueness,
                  ReferenceTypes |-> a.ReferenceTypes,
                  Metadata |-> a.Metadata])

ToOptional(h, attr) ==
  IF attr = 0
  THEN [heap |-> h, ret |-> 0]
  ELSE IF ~h.attrs[attr].Required
       THEN [heap |-> h, ret |-> attr]
       ELSE LET a == h.attrs[attr]
            IN NewAttribute(h,
                 [Name |-> a.Name,
                  Description |-> a.Description,
                  Type |-> a.Type,
                  SubAttributes |-> a.SubAttributes,
                  CanonicalValues |-> a.CanonicalValues,
                  MultiValued |-> a.MultiValued,
                  Required |-> FALSE,
                  CaseExact |-> a.CaseExact,
                  Mutability |-> a.Mutability,
                  Returned |-> a.Returned,
                  Uniqueness |-> a.Uniqueness,
                  ReferenceTypes |-> a.ReferenceTypes,
                  Metadata |-> a.Metadata])

\* Metadata.copy(): a new Metadata with the same content.
MetadataCopy(h, metadata) ==
  IF metadata = 0 THEN [heap |-> h, ret |-> 0] ELSE NewMetadata(h, h.metas[metadata])

\* make and the loop of appends over a slice of strings: nil when the slice
\* has no element, else a new array with the same elements.
CopyStrings(h, slice) ==
  IF Len(Elements(h, slice)) > 0
  THEN NewArray(h, Elements(h, slice))
  ELSE [heap |-> h, ret |-> 0]

\* A Copy that hands the receiver's sub-attribute slice to the new Attribute.
CopySharingSubAttributes(h, attr) ==
  IF attr = 0
  THEN [heap |-> h, ret |-> 0]
  ELSE LET canonicalValues == CopyStrings(h, h.attrs[attr].CanonicalValues)
           referenceTypes == CopyStrings(canonicalValues.heap, h.attrs[attr].ReferenceTypes)
           metadata == MetadataCopy(referenceTypes.heap, h.attrs[attr].Metadata)
       IN NewAttribute(metadata.heap,
                       [h.attrs[attr] EXCEPT !.CanonicalValues = canonicalValues.ret,
                                             !.ReferenceTypes = referenceTypes.ret,
                                             !.Metadata = metadata.ret])

RECURSIVE Copy(_, _)
RECURSIVE CopySubAttributes(_, _, _)

\* The loop over attr.SubAttributes from element i on: r.ret is the slice
\* appended to so far, r.heap the heap with the copies made so far.
CopySubAttributes(from, i, r) ==
  IF i > Len(from)
  THEN r
  ELSE LET c == Copy(r.heap, from[i])
       IN CopySubAttributes(from, i + 1, [heap |-> c.heap, ret |-> Append(r.ret, c.ret)])

\* Copy: nil for nil; else a new Attribute with the receiver's scalar
\* fields, copies of its sub-attributes in a new array, new arrays for the
\* canonical values and the reference types, and a copy of the metadata.
Copy(h, attr) ==
  IF attr = 0
  THEN [heap |-> h, ret |-> 0]
  ELSE LET a == h.attrs[attr]
           copies == CopySubAttributes(Elements(h, a.SubAttributes), 1,
                                       [heap |-> h, ret |-> << >>])
           subAttributes == IF Len(Elements(h, a.SubAttributes)) > 0
                            THEN NewArray(copies.heap, copies.ret)
                            ELSE [heap |-> h, ret |-> 0]
           canonicalValues == CopyStrings(subAttributes.heap, a.CanonicalValues)
           referenceTypes == CopyStrings(canonicalValues.heap, a.ReferenceTypes)
           metadata == MetadataCopy(referenceTypes.heap, a.Metadata)
       IN NewAttribute(metadata.heap,
            [Name |-> a.Name,
             Description |-> a.Description,
             Type |-> a.Type,
             SubAttributes |-> subAttributes.ret,
             CanonicalValues |-> canonicalValues.ret,
             MultiValued |-> a.MultiValued,
             Required |-> a.Required,
             CaseExact |-> a.CaseExact,
             Mutability |-> a.Mutability,
             Returned |-> a.Returned,
             Uniqueness |-> a.Uniqueness,
             ReferenceTypes |-> referenceTypes.ret,
             Metadata |-> metadata.ret])

(***************************************************************************)
(* Inputs.                                                                 *)
(***************************************************************************)
\* The mappings with at most n keys that hold, under each key k of the
\* function inputs, one of the values inputs[k].
Mappings(inputs, n) ==
  {MappingValue(m) :
     m \in UNION {{f \in [d -> UNION {inputs[k] : k \in d}] : \A k \in d : f[k] \in inputs[k]} :
                    d \in {e \in SUBSET DOMAIN inputs : Cardinality(e) <= n}}}

\* The orders in which ranging over a map may yield its keys.
Orders(value) ==
  IF value.kind # "mapping" THEN {<< >>}
  ELSE LET d == DOMAIN value.val
       IN {o \in [1..Cardinality(d) -> d] : \A i, j \in DOMAIN o : o[i] = o[j] => i = j}

\* The values of p's children, in order.
Values(p) == [i \in 1..Len(p.subProps) |-> p.subProps[i].v]

(***************************************************************************)
(* State.  props: the properties, by number.  last: the call that has just *)
(* returned: its operation, receiver, argument, error and result, and the  *)
(* receiver as it was before the call; the caller takes the result         *)
(* (Return) before it calls again.  mutated[i]: whether some call has      *)
(* changed the value of a child of props[i] since its construction.        *)
(* heap: the Attribute trees of the schema, as the Go heap holds them (no  *)
(* object while the caller works on properties only).                      *)
(***************************************************************************)
NoCall ==
  [op |-> "none", p |-> 0, arg |-> Null, err |-> NoError, ret |-> FALSE,
   pre |-> NewComplex(nameAttr)]

Returned(op, i, arg, err, ret) ==
  [op |-> op, p |-> i, arg |-> arg, err |-> err, ret |-> ret, pre |-> props[i]]

InitOf(ids, attrs) ==
  /\ props \in [ids -> {NewComplex(a) : a \in attrs}]
  /\ last = NoCall
  /\ mutated = [i \in ids |-> FALSE]
  /\ heap = NoHeap

CallAdd(i, value, order) ==
  /\ last.op = "none"
  /\ UNCHANGED heap
  /\ LET r == Add(props[i], value, order)
     IN /\ props' = [props EXCEPT ![i] = r.prop]
        /\ last' = Returned("Add", i, value, r.err, FALSE)
        /\ mutated' = [mutated EXCEPT ![i] = @ \/ Values(r.prop) # Values(props[i])]

CallReplace(i, value, order) ==
  /\ last.op = "none"
  /\ UNCHANGED heap
  /\ LET r == Replace(props[i], value, order)
         d == IF value = Null THEN props[i] ELSE Delete(props[i]).prop
     IN /\ props' = [props EXCEPT ![i] = r.prop]
        /\ last' = Returned("Replace", i, value, r.err, FALSE)
        /\ mutated' = [mutated EXCEPT ![i] = \/ @
                                             \/ Values(d) # Values(props[i])
                                             \/ Values(r.prop) # Values(d)]

CallDelete(i) ==
  /\ last.op = "none"
  /\ UNCHANGED heap
  /\ LET r == Delete(props[i])
     IN /\ props' = [props EXCEPT ![i] = r.prop]
        /\ last' = Returned("Delete", i, Null, r.err, FALSE)
        /\ mutated' = [mutated EXCEPT ![i] = @ \/ Values(r.prop) # Values(props[i])]

CallHash(i) ==
  /\ last.op = "none"
  /\ UNCHANGED heap
  /\ props' = [props EXCEPT ![i] = HashCall(props[i])]
  /\ last' = Returned("Hash", i, Null, NoError, FALSE)
  /\ UNCHANGED mutated

\* p.Matches(another): both Hash() calls fill the cache of their receiver.
CallMatches(i, j) ==
  /\ last.op = "none"
  /\ UNCHANGED heap
  /\ props' = [k \in DOMAIN props |->
                 IF k \in {i, j} /\ AttrEquals(props[i].attr, props[j].attr)
                                 /\ CountChildren(props[i]) = CountChildren(props[j])
                 THEN HashCall(props[k]) ELSE props[k]]
  /\ last' = Returned("Matches", i, Null, NoError, Matches(props[i], props[j]))
  /\ UNCHANGED mutated

Return ==
  /\ last.op # "none"
  /\ UNCHANGED heap
  /\ last' = NoCall
  /\ UNCHANGED <<props, mutated>>

(***************************************************************************)
(* The calls a caller may make on the properties, with mappings over the   *)
(* given inputs or with something that is no mapping.                      *)
(***************************************************************************)
Arguments(inputs) ==
  Mappings(inputs, MaxKeys) \cup {Null, StringValue("Ada"), SequenceValue}

Calls(arguments) ==
  \/ \E i \in DOMAIN props, value \in arguments : \E order \in Orders(value) :
       CallAdd(i, value, order)
  \/ \E i \in DOMAIN props, value \in arguments : \E order \in Orders(value) :
       CallReplace(i, value, order)
  \/ \E i \in DOMAIN props : CallDelete(i)
  \/ \E i \in DOMAIN props : CallHash(i)
  \/ \E i, j \in DOMAIN props : CallMatches(i, j)
  \/ Return

(***************************************************************************)
(* Spec: one property of the attribute name.  givenName and familyName are *)
(* its sub-attributes, FAMILYNAME is familyName in another case, nickName  *)
(* is no sub-attribute; 42 is no string, so a string child rejects it.     *)
(***************************************************************************)
NameInputs ==
  [k \in {"givenName", "familyName", "FAMILYNAME", "nickName"} |->
     CASE k = "givenName" -> {StringValue("Ada"), StringValue("King"), IntegerValue("42")}
       [] k = "familyName" -> {StringValue("Lovelace"), StringValue("King"), Null}
       [] k = "FAMILYNAME" -> {StringValue("King"), IntegerValue("42")}
       [] k = "nickName" -> {StringValue("Ada")}]

NameArguments == Arguments(NameInputs)

Init == InitOf({1}, {nameAttr})

Next == Calls(NameArguments)

Spec == Init /\ [][Next]_vars

(***************************************************************************)
(* SpecPair: two properties, each of the attribute member or name, to      *)
(* compare with one another.  value and display are the sub-attributes of  *)
(* member, value its identity.                                             *)
(***************************************************************************)
PairInputs ==
  [k \in {"value", "display", "givenName", "familyName"} |->
     CASE k = "value" -> {StringValue("Ada"), StringValue("King")}
       [] k = "display" -> {StringValue("Ada"), IntegerValue("42")}
       [] k = "givenName" -> {StringValue("Ada")}
       [] k = "familyName" -> {IntegerValue("42")}]

PairArguments == Mappings(PairInputs, MaxKeys) \cup {Null}

InitPair == InitOf({1, 2}, Attributes)

NextPair == Calls(PairArguments)

SpecPair == InitPair /\ [][NextPair]_vars

(***************************************************************************)
(* SpecContainer: one property, of the attribute name or member, and a     *)
(* caller that also uses the container surface: it visits the children,    *)
(* asks for a new child, compacts, takes a child by its name and calls Add *)
(* or Delete on it, calls the relational operations, and deletes a         *)
(* property some of whose children fail to delete.                         *)
(***************************************************************************)
CallForEachChild(i, failing) ==
  /\ last.op = "none"
  /\ UNCHANGED heap
  /\ LET r == ForEachChild(props[i], failing)
     IN last' = Returned("ForEachChild", i, [kind |-> "callback", val |-> failing],
                         r.err, r.visited)
  /\ UNCHANGED <<props, mutated>>

CallNewChild(i) ==
  /\ last.op = "none"
  /\ UNCHANGED heap
  /\ last' = Returned("NewChild", i, Null, NoError, NewChild(props[i]))
  /\ UNCHANGED <<props, mutated>>

CallCompact(i) ==
  /\ last.op = "none"
  /\ UNCHANGED heap
  /\ props' = [props EXCEPT ![i] = Compact(props[i])]
  /\ last' = Returned("Compact", i, Null, NoError, FALSE)
  /\ UNCHANGED mutated

\* p.ChildAtIndex(index).Add(value): the child is changed, the parent is not
\* called.
CallChildAdd(i, index, value) ==
  /\ last.op = "none"
  /\ UNCHANGED heap
  /\ ChildAtIndex(props[i], index) # 0
  /\ LET k == ChildAtIndex(props[i], index)
         r == LeafAdd(props[i].subProps[k], value)
     IN /\ props' = [props EXCEPT ![i].subProps[k] = r.prop]
        /\ last' = Returned("ChildAdd", i, value, r.err, k)
        /\ mutated' = [mutated EXCEPT ![i] = @ \/ r.prop.v # props[i].subProps[k].v]

\* p.ChildAtIndex(index).Delete()
CallChildDelete(i, index) ==
  /\ last.op = "none"
  /\ UNCHANGED heap
  /\ ChildAtIndex(props[i], index) # 0
  /\ LET k == ChildAtIndex(props[i], index)
         r == LeafDelete(props[i].subProps[k])
     IN /\ props' = [props EXCEPT ![i].subProps[k] = r.prop]
        /\ last' = Returned("ChildDelete", i, Null, r.err, k)
        /\ mutated' = [mutated EXCEPT ![i] = @ \/ r.prop.v # props[i].subProps[k].v]

CallRelational(i, op, value) ==
  /\ last.op = "none"
  /\ UNCHANGED heap
  /\ LET r == Relational(op, props[i], value)
     IN last' = Returned(op, i, value, r.err, r.ret)
  /\ UNCHANGED <<props, mutated>>

\* p.Delete() while the children at the positions failing fail to delete.
CallDeleteFailing(i, failing) ==
  /\ last.op = "none"
  /\ UNCHANGED heap
  /\ failing # {}
  /\ LET r == DeleteFailing(props[i], 1, failing)
     IN /\ props' = [props EXCEPT ![i] = r.prop]
        /\ last' = Returned("DeleteFailing", i, [kind |-> "failing", val |-> failing],
                            r.err, FALSE)
        /\ mutated' = [mutated EXCEPT ![i] = @ \/ Values(r.prop) # Values(props[i])]

\* What the caller passes for an index: a name as the schema spells it, one
\* in another case, one of no sub-attribute, and something that is no
\* string.
Indices ==
  {StringValue("givenName"), StringValue("FAMILYNAME"), StringValue("value"),
   StringValue("nickName"), IntegerValue("42")}

Scalars == {StringValue("Ada"), StringValue("King"), IntegerValue("42"), Null}

ContainerCalls ==
  \/ \E i \in DOMAIN props : \E failing \in SUBSET (1..Len(props[i].subProps)) :
       CallForEachChild(i, failing)
  \/ \E i \in DOMAIN props : CallNewChild(i)
  \/ \E i \in DOMAIN props : CallCompact(i)
  \/ \E i \in DOMAIN props, index \in Indices, value \in Scalars :
       CallChildAdd(i, index, value)
  \/ \E i \in DOMAIN props, index \in Indices : CallChildDelete(i, index)
  \/ \E i \in DOMAIN props, op \in RelationalOps, value \in Scalars :
       CallRelational(i, op, value)
  \/ \E i \in DOMAIN props : \E failing \in SUBSET (1..Len(props[i].subProps)) :
       CallDeleteFailing(i, failing)

ContainerInputs ==
  [k \in {"givenName", "familyName", "value", "display"} |->
     CASE k = "givenName" -> {StringValue("Ada"), IntegerValue("42")}
       [] k = "familyName" -> {StringValue("King"), IntegerValue("42")}
       [] k = "value" -> {StringValue("Ada"), IntegerValue("42")}
       [] k = "display" -> {StringValue("King")}]

ContainerArguments == Arguments(ContainerInputs)

InitContainer == InitOf({1}, Attributes)

NextContainer == Calls(ContainerArguments) \/ ContainerCalls

SpecContainer == InitContainer /\ [][NextContainer]_vars

(***************************************************************************)
(* SpecAttribute: a schema on the heap and a caller of the Attribute       *)
(* methods.  The caller calls a method on any Attribute of the heap or on  *)
(* nil; when the method returned an Attribute it may go on to write to the *)
(* objects it reaches from there: an Attribute's Name, an element of a     *)
(* slice, a Metadata.  last.calls counts the calls made, last.written      *)
(* holds the objects written since the last call returned; a caller that   *)
(* has written calls no more.                                              *)
(***************************************************************************)
\* The most calls the caller makes.
MaxCalls == 2

\* The most objects the caller writes to.
MaxWrites == 1

RECURSIVE Reach(_, _)
\* The objects reached from an Attribute pointer: Attributes, backing
\* arrays and Metadata.
Reach(h, attr) ==
  IF attr = 0
  THEN {}
  ELSE LET a == h.attrs[attr]
           subs == Elements(h, a.SubAttributes)
       IN {<<"attr", attr>>}
          \cup {<<"attrs", y>> : y \in {a.SubAttributes} \ {0}}
          \cup {<<"strings", y>> : y \in {a.CanonicalValues, a.ReferenceTypes} \ {0}}
          \cup {<<"meta", z>> : z \in {a.Metadata} \ {0}}
          \cup UNION {Reach(h, subs[i]) : i \in 1..Len(subs)}

RECURSIVE Tree(_, _)
\* The Attribute tree under a pointer, as a value: every field, the slices
\* by their elements, the pointers by what they point to.
Tree(h, attr) ==
  IF attr = 0
  THEN [Nil |-> TRUE]
  ELSE LET a == h.attrs[attr]
           subs == Elements(h, a.SubAttributes)
       IN [Name |-> a.Name, Description |-> a.Description, Type |-> a.Type,
           SubAttributes |-> [i \in 1..Len(subs) |-> Tree(h, subs[i])],
           CanonicalValues |-> Elements(h, a.CanonicalValues),
           MultiValued |-> a.MultiValued, Required |-> a.Required,
           CaseExact |-> a.CaseExact, Mutability |-> a.Mutability,
           Returned |-> a.Returned, Uniqueness |-> a.Uniqueness,
           ReferenceTypes |-> Elements(h, a.ReferenceTypes),
           Metadata |-> IF a.Metadata = 0 THEN [Nil |-> TRUE] ELSE h.metas[a.Metadata]]

NoAttributeCall ==
  [op |-> "none", p |-> 0, arg |-> Null, err |-> NoError, ret |-> 0, pre |-> NoHeap,
   written |-> {}, calls |-> 0]

AttrReturned(op, attr, arg, ret) ==
  [op |-> op, p |-> attr, arg |-> arg, err |-> NoError, ret |-> ret, pre |-> heap,
   written |-> {}, calls |-> last.calls + 1]

\* The caller may call.
MayCall == last.calls < MaxCalls /\ last.written = {}

Pointers == 0..Len(heap.attrs)

CallSetDefaults(attr) ==
  /\ MayCall
  /\ heap' = setDefaults(heap, attr)
  /\ last' = AttrReturned("setDefaults", attr, Null, 0)
  /\ UNCHANGED <<props, mutated>>

CallGoesBy(attr, name) ==
  /\ MayCall
  /\ last' = AttrReturned("GoesBy", attr, StringValue(name), GoesBy(heap, attr, name))
  /\ UNCHANGED <<props, mutated, heap>>

CallToSingleValued(attr) ==
  /\ MayCall
  /\ LET r == ToSingleValued(heap, attr)
     IN /\ heap' = r.heap
        /\ last' = AttrReturned("ToSingleValued", attr, Null, r.ret)
  /\ UNCHANGED <<props, mutated>>

CallToOptional(attr) ==
  /\ MayCall
  /\ LET r == ToOptional(heap, attr)
     IN /\ heap' = r.heap
        /\ last' = AttrReturned("ToOptional", attr, Null, r.ret)
  /\ UNCHANGED <<props, mutated>>

CallCopy(attr) ==
  /\ MayCall
  /\ LET r == Copy(heap, attr)
     IN /\ heap' = r.heap
        /\ last' = AttrReturned("Copy", attr, Null, r.ret)
  /\ UNCHANGED <<props, mutated>>

\* The caller may write to an object when the last call returned an
\* Attribute from which it reaches the object.
MayWrite(object) ==
  /\ last.op \in {"Copy", "ToSingleValued", "ToOptional"}
  /\ object \in Reach(heap, last.ret)
  /\ Cardinality(last.written \cup {object}) <= MaxWrites

\* attr.Name = "nickName"
WriteName(attr) ==
  /\ MayWrite(<<"attr", attr>>)
  /\ heap' = [heap EXCEPT !.attrs[attr].Name = "nickName"]
  /\ last' = [last EXCEPT !.written = @ \cup {<<"attr", attr>>}]
  /\ UNCHANGED <<props, mutated>>

\* subAttributes[i] = nil
WriteSubAttribute(slice, i) ==
  /\ MayWrite(<<"attrs", slice>>)
  /\ i \in 1..Len(heap.arrays[slice])
  /\ heap' = [heap EXCEPT !.arrays[slice][i] = 0]
  /\ last' = [last EXCEPT !.written = @ \cup {<<"attrs", slice>>}]
  /\ UNCHANGED <<props, mutated>>

\* canonicalValues[i] = "42", referenceTypes[i] = "42"
WriteString(slice, i) ==
  /\ MayWrite(<<"strings", slice>>)
  /\ i \in 1..Len(heap.arrays[slice])
  /\ heap' = [heap EXCEPT !.arrays[slice][i] = "42"]
  /\ last' = [last EXCEPT !.written = @ \cup {<<"strings", slice>>}]
  /\ UNCHANGED <<props, mutated>>

\* metadata.Identity = false
WriteMetadata(metadata) ==
  /\ MayWrite(<<"meta", metadata>>)
  /\ heap' = [heap EXCEPT !.metas[metadata].Identity = FALSE]
  /\ last' = [last EXCEPT !.written = @ \cup {<<"meta", metadata>>}]
  /\ UNCHANGED <<props, mutated>>

\* The names the caller asks GoesBy about.
Names == {"familyName", "FAMILYNAME", "givenName", "nickName", ""}

\* An Attribute of the schema.  unset: its Type, Mutability, Returned and
\* Uniqueness are still empty.
AttributeOf(name, unset, flag, subAttributes, canonicalValues, referenceTypes, metadata) ==
  [Name |-> name, Description |-> "", Type |-> IF unset THEN "" ELSE "complex",
   SubAttributes |-> subAttributes, CanonicalValues |-> canonicalValues,
   MultiValued |-> flag, Required |-> flag, CaseExact |-> FALSE,
   Mutability |-> IF unset THEN "" ELSE "readOnly",
   Returned |-> IF unset THEN "" ELSE "always",
   Uniqueness |-> IF unset THEN "" ELSE "server",
   ReferenceTypes |-> referenceTypes, Metadata |-> metadata]

\* The schemas: the Attribute name (position 1) alone, with the
\* sub-attribute familyName, with familyName and givenName, or with
\* familyName that has the sub-attribute givenName; multi-valued and
\* required, or neither; bare (Type, Mutability, Returned and Uniqueness
\* still empty, an empty slice of canonical values, no Metadata) or not.
Schemas ==
  {[attrs |->
      CASE shape = 0 ->
             <<AttributeOf("name", bare, flag, 0, 1, 0, IF bare THEN 0 ELSE 1)>>
        [] shape = 1 ->
             <<AttributeOf("name", bare, flag, 2, 1, 0, IF bare THEN 0 ELSE 1),
               AttributeOf("familyName", FALSE, ~flag, 0, 0, 1, 0)>>
        [] shape = 2 ->
             <<AttributeOf("name", bare, flag, 2, 1, 0, IF bare THEN 0 ELSE 1),
               AttributeOf("familyName", FALSE, ~flag, 0, 0, 1, 0),
               AttributeOf("givenName", bare, flag, 0, 0, 0, 0)>>
        [] shape = 3 ->
             <<AttributeOf("name", bare, flag, 2, 1, 0, IF bare THEN 0 ELSE 1),
               AttributeOf("familyName", FALSE, ~flag, 3, 0, 0, IF bare THEN 0 ELSE 1),
               AttributeOf("givenName", bare, flag, 0, 0, 1, 0)>>,
     arrays |->
       <<IF bare THEN << >> ELSE <<"Ada", "King">> >>
         \o (CASE shape = 0 -> << >>
               [] shape = 1 -> << <<2>> >>
               [] shape = 2 -> << <<2, 3>> >>
               [] shape = 3 -> << <<2>>, <<3>> >>),
     metas |-> IF bare THEN << >> ELSE <<[Identity |-> TRUE]>>] :
     shape \in 0..3, bare \in BOOLEAN, flag \in BOOLEAN}

InitAttribute ==
  /\ props = << >>
  /\ mutated = << >>
  /\ last = NoAttributeCall
  /\ heap \in Schemas

NextAttribute ==
  \/ \E attr \in Pointers : CallSetDefaults(attr)
  \/ \E attr \in Pointers, name \in Names : CallGoesBy(attr, name)
  \/ \E attr \in Pointers : CallToSingleValued(attr)
  \/ \E attr \in Pointers : CallToOptional(attr)
  \/ \E attr \in Pointers : CallCopy(attr)
  \/ \E attr \in 1..Len(heap.attrs) : WriteName(attr)
  \/ \E slice \in 1..Len(heap.arrays), i \in 1..2 : WriteSubAttribute(slice, i)
  \/ \E slice \in 1..Len(heap.arrays), i \in 1..2 : WriteString(slice, i)
  \/ \E metadata \in 1..Len(heap.metas) : WriteMetadata(metadata)

SpecAttribute == InitAttribute /\ [][NextAttribute]_vars

(***************************************************************************)
(* Properties.  In a state where a call has just returned, last.pre is the *)
(* receiver before the call and Post the receiver after it.                *)
(***************************************************************************)
Post == props[last.p]

Mutators == {"Add", "Replace", "Delete"}

\* The non-null values a mapping holds under the keys that name the
\* sub-attribute, whatever their case.
Given(m, name) == {m[k] : k \in {j \in DOMAIN m : ToLower(j) = ToLower(name)}} \ {Null}

\* C1 (as claimed): when Add, Replace or Delete has returned, with or without
\* an error, Hash() is the digest of the children as they are now.
C1_HashCurrentOnReturn ==
  last.op \in Mutators => Hash(Post) = Digest(Post)

\* C2 (as claimed): a Replace that fails returns an InvalidValue naming the
\* complex attribute's own path and leaves every child unassigned.
C2_FailedReplaceEmpties ==
  (last.op = "Replace" /\ last.err # NoError) =>
     /\ last.err.kind = "InvalidValue"
     /\ last.err.path = Post.attr.Path
     /\ IsUnassigned(Post)

\* C3: an Add of a mapping that returns no error merges: a child named
\* (in any case) by keys with non-null values holds one of those values, any
\* other child keeps the value it had; a mapping whose known keys all hold
\* strings or null is accepted, whatever unknown keys it has; and
\* {givenName: Ada, familyName: King} onto givenName = Ada, familyName =
\* Lovelace leaves givenName = Ada, familyName = King.
C3_AddMerges ==
  (last.op = "Add" /\ last.arg.kind = "mapping") =>
     /\ last.err = NoError =>
          \A i \in 1..Len(Post.subProps) :
             LET given == Given(last.arg.val, Post.subProps[i].attr.Name)
             IN IF given = {} THEN Post.subProps[i].v = last.pre.subProps[i].v
                ELSE Post.subProps[i].v \in given
     /\ (\A i \in 1..Len(Post.subProps) :
           \A v \in Given(last.arg.val, Post.subProps[i].attr.Name) : v.kind = "string")
          => last.err = NoError
     /\ ( /\ Values(last.pre) = <<StringValue("Ada"), StringValue("Lovelace")>>
          /\ last.arg.val = [givenName |-> StringValue("Ada"), familyName |-> StringValue("King")] )
          => /\ last.err = NoError
             /\ Raw(Post) = [givenName |-> StringValue("Ada"), familyName |-> StringValue("King")]

\* C3's case: the second Add of the scenario has returned.
C3_Witness ==
  /\ last.op = "Add"
  /\ Values(last.pre) = <<StringValue("Ada"), StringValue("Lovelace")>>
  /\ last.arg = MappingValue([givenName |-> StringValue("Ada"), familyName |-> StringValue("King")])
  /\ Values(Post) = <<StringValue("Ada"), StringValue("King")>>

\* The values of the children that take part in the hash: the identity
\* children, or all of them when the attribute has no identity sub-attribute.
ParticipatingValues(p) ==
  [i \in {j \in 1..Len(p.subProps) :
            HasIdentitySubAttributes(p.attr) => p.subProps[j].attr.Identity} |->
     p.subProps[i].v]

\* C4 (as claimed): two properties of one attribute have equal Hash() when
\* they differ in no child that takes part in the hash, and different Hash()
\* when they differ in the value or the assignment of one that does.
C4_HashByParticipatingChildren ==
  \A i, j \in DOMAIN props :
     props[i].attr = props[j].attr =>
        (Hash(props[i]) = Hash(props[j])
           <=> ParticipatingValues(props[i]) = ParticipatingValues(props[j]))

\* C5 (as claimed): p.Matches(q) is true exactly when the attributes are
\* schema-equal and every child that takes part in the hash has the same
\* value, or none, in both; so Matches is reflexive and symmetric.
C5_MatchesIffSameParticipating ==
  \A i, j \in DOMAIN props :
     /\ Matches(props[i], props[j])
          <=> /\ AttrEquals(props[i].attr, props[j].attr)
              /\ ParticipatingValues(props[i]) = ParticipatingValues(props[j])
     /\ Matches(props[i], props[i])
     /\ Matches(props[i], props[j]) = Matches(props[j], props[i])

\* C6 (as claimed): an Add of anything that is no mapping, null included,
\* returns an InvalidValue with the value's type and the attribute's path and
\* changes nothing.
C6_NonMappingRejected ==
  (last.op = "Add" /\ last.arg.kind # "mapping") =>
     /\ last.err = InvalidValue(GoType(last.arg), Post.attr.Path)
     /\ Post = last.pre

\* C6 (amended): an Add of a scalar or a sequence returns an InvalidValue with
\* the value's type and the attribute's path, an Add of null returns no
\* error, and both change nothing: children, touched state and hash.
C6_NonMappingRejectedNullIgnored ==
  (last.op = "Add" /\ last.arg.kind # "mapping") =>
     /\ last.arg # Null => last.err = InvalidValue(GoType(last.arg), Post.attr.Path)
     /\ last.arg = Null => last.err = NoError
     /\ Post = last.pre
     /\ Touched(Post) = Touched(last.pre)
     /\ Hash(Post) = Hash(last.pre)

\* C6's case: a sequence was handed to Add on a property holding values.
C6_Witness ==
  /\ last.op = "Add"
  /\ last.arg = SequenceValue
  /\ last.err.kind = "InvalidValue"
  /\ ~IsUnassigned(last.pre)

\* C7: Replace(nil) returns no error and changes nothing: the children,
\* IsUnassigned(), Present(), Touched() and Hash() are as before.
C7_ReplaceNilNoOp ==
  (last.op = "Replace" /\ last.arg = Null) =>
     /\ last.err = NoError
     /\ Values(Post) = Values(last.pre)
     /\ IsUnassigned(Post) = IsUnassigned(last.pre)
     /\ Present(Post) = Present(last.pre)
     /\ Touched(Post) = Touched(last.pre)
     /\ Hash(Post) = Hash(last.pre)

\* C7's case: Replace(nil) has returned on a property holding values.
C7_Witness ==
  /\ last.op = "Replace"
  /\ last.arg = Null
  /\ Present(last.pre)

\* C8: Touched() is true exactly when some call has changed a child's value
\* since the construction, and it never goes back to false.
C8_TouchedIffMutated ==
  /\ [](\A i \in DOMAIN props : Touched(props[i]) <=> mutated[i])
  /\ [][\A i \in DOMAIN props : Touched(props[i]) => Touched(props'[i])]_vars

\* C8's case: a property whose familyName alone was changed, then deleted.
C8_Witness ==
  /\ last.op = "Delete"
  /\ Touched(Post)
  /\ ~Post.subProps[1].touched
  /\ IsUnassigned(Post)

\* C9: a new property is unassigned and untouched, and a Delete on an
\* unassigned property leaves it unassigned and leaves Touched() as it was.
C9_EmptinessIdempotent ==
  /\ \A i \in DOMAIN props :
       props[i] = NewComplex(props[i].attr) => IsUnassigned(props[i]) /\ ~Touched(props[i])
  /\ (last.op = "Delete" /\ IsUnassigned(last.pre)) =>
        /\ last.err = NoError
        /\ IsUnassigned(Post)
        /\ Touched(Post) = Touched(last.pre)

\* C9's case: Delete has returned on an unassigned property that earlier
\* calls had touched.
C9_Witness ==
  /\ last.op = "Delete"
  /\ IsUnassigned(last.pre)
  /\ Touched(last.pre)

\* The keys of a mapping that name a sub-attribute of p exactly.
RecognizedKeys(p, m) ==
  {k \in DOMAIN m : \E i \in 1..Len(p.subProps) : ToLower(k) = ToLower(p.subProps[i].attr.Name)}

\* C10 (as claimed): after an accepted Add(v) on a new property, Raw() is v
\* without its unknown keys: the recognized keys of v, with v's values.
C10_RawIsRecognizedPart ==
  ( /\ last.op = "Add" /\ last.arg.kind = "mapping" /\ last.err = NoError
    /\ last.pre = NewComplex(last.pre.attr) ) =>
     Raw(Post) = [k \in RecognizedKeys(Post, last.arg.val) |-> last.arg.val[k]]

\* C10 (amended): after an accepted Add(v) on a new property, Raw() has one
\* key per sub-attribute, the sub-attribute's name as the schema spells it;
\* under it is a non-null value v holds under a key naming that
\* sub-attribute in any case, or null when v has none.
C10_RawHasEverySubAttribute ==
  ( /\ last.op = "Add" /\ last.arg.kind = "mapping" /\ last.err = NoError
    /\ last.pre = NewComplex(last.pre.attr) ) =>
     /\ DOMAIN Raw(Post) =
          {Post.attr.SubAttributes[i].Name : i \in 1..Len(Post.attr.SubAttributes)}
     /\ \A k \in DOMAIN Raw(Post) :
          IF Given(last.arg.val, k) = {} THEN Raw(Post)[k] = Null
          ELSE Raw(Post)[k] \in Given(last.arg.val, k)

\* C10's case: a mapping with an unknown key and a key in another case was
\* added to a new property.
C10_Witness ==
  /\ last.op = "Add"
  /\ last.err = NoError
  /\ last.pre = NewComplex(nameAttr)
  /\ last.arg = MappingValue([k \in {"FAMILYNAME", "nickName"} |->
                               IF k = "nickName" THEN StringValue("Ada") ELSE StringValue("King")])

\* C11: after a Delete that returns no error every child is unassigned,
\* IsUnassigned() is true, Present() is false and Hash() is the Hash() of a
\* new property of the same attribute; an error of Delete is the error of a
\* child's Delete.
C11_DeleteEmpties ==
  /\ (last.op = "Delete" /\ last.err = NoError) =>
        /\ \A i \in 1..Len(Post.subProps) : LeafIsUnassigned(Post.subProps[i])
        /\ IsUnassigned(Post)
        /\ ~Present(Post)
        /\ Hash(Post) = Hash(NewComplex(Post.attr))
  /\ (last.op = "Delete" /\ last.err # NoError) =>
        \E i \in 1..Len(last.pre.subProps) : LeafDelete(last.pre.subProps[i]).err = last.err

\* C11's case: Delete has returned on a property whose children both held a
\* value.
C11_Witness ==
  /\ last.op = "Delete"
  /\ last.err = NoError
  /\ \A i \in 1..Len(last.pre.subProps) : LeafPresent(last.pre.subProps[i])
  /\ IsUnassigned(Post)

\* C12: in every state the children are as many as the attribute's
\* sub-attributes and in their order, child i is bound to sub-attribute i,
\* and the name index maps each lower-cased sub-attribute name, and nothing
\* else, to that child's position; NewChild() returns -1, and NewChild() and
\* Compact() leave the property as it was.
C12_ShapeMirrorsSchema ==
  /\ \A i \in DOMAIN props :
       LET p == props[i]
           subAttributes == p.attr.SubAttributes
       IN /\ CountChildren(p) = Len(subAttributes)
          /\ \A k \in 1..Len(subAttributes) : p.subProps[k].attr = subAttributes[k]
          /\ DOMAIN p.nameIndex = {ToLower(subAttributes[k].Name) : k \in 1..Len(subAttributes)}
          /\ \A k \in 1..Len(subAttributes) : p.nameIndex[ToLower(subAttributes[k].Name)] = k
  /\ last.op = "NewChild" => last.ret = -1
  /\ last.op \in {"NewChild", "Compact"} =>
       /\ CountChildren(Post) = CountChildren(last.pre)
       /\ Post = last.pre

\* C12's case: NewChild() has returned on a property holding values.
C12_Witness ==
  /\ last.op = "NewChild"
  /\ last.ret = -1
  /\ Present(last.pre)
  /\ CountChildren(Post) = 2

\* The least of a set of positions.
First(positions) == CHOOSE k \in positions : \A j \in positions : k <= j

\* The positions of the children that the first j keys of order name.
NamedUpTo(p, order, j) ==
  {p.nameIndex[ToLower(order[i])] :
     i \in {h \in 1..j : ToLower(order[h]) \in DOMAIN p.nameIndex}}

\* C13: ForEachChild returns the error of the first failing visit as it is
\* and visits no child after it (and every child when no visit fails); an
\* Add that fails returns the error of a child's Add as it is, and the
\* children named by no key up to the failing one are as before; a Delete
\* with failing children returns the error of the first of them as it is,
\* the children before it are deleted, that child and those after it are as
\* before.
C13_ErrorsPropagateAndStop ==
  /\ last.op = "ForEachChild" =>
        LET failing == last.arg.val
            n == CountChildren(Post)
        IN IF failing = {}
           THEN last.err = NoError /\ last.ret = [i \in 1..n |-> i]
           ELSE /\ last.err = VisitorError(First(failing))
                /\ last.ret = [i \in 1..First(failing) |-> i]
  /\ (last.op = "Add" /\ last.arg.kind = "mapping") =>
        /\ \E order \in Orders(last.arg) :
              Add(last.pre, last.arg, order) = [prop |-> Post, err |-> last.err]
        /\ \A order \in Orders(last.arg) :
              LET r == Add(last.pre, last.arg, order)
              IN r.err # NoError =>
                   \E j \in 1..Len(order) :
                      /\ ToLower(order[j]) \in DOMAIN last.pre.nameIndex
                      /\ r.err = LeafAdd(r.prop.subProps[last.pre.nameIndex[ToLower(order[j])]],
                                         last.arg.val[order[j]]).err
                      /\ \A k \in 1..Len(r.prop.subProps) :
                            k \notin NamedUpTo(last.pre, order, j - 1) =>
                               r.prop.subProps[k] = last.pre.subProps[k]
  /\ last.op = "DeleteFailing" =>
        LET k == First(last.arg.val)
        IN /\ last.err = DeleteError(k)
           /\ \A i \in 1..Len(Post.subProps) :
                 IF i < k THEN LeafIsUnassigned(Post.subProps[i])
                 ELSE Post.subProps[i] = last.pre.subProps[i]

\* C13's case: an Add whose first key's child fails has returned that
\* child's error, and the child of the other key is as before.
C13_Witness ==
  /\ last.op = "Add"
  /\ last.arg = MappingValue([givenName |-> IntegerValue("42"), familyName |-> StringValue("King")])
  /\ last.err = InvalidValue("int", "name.givenName")
  /\ Post.attr = nameAttr
  /\ Post.subProps[2] = last.pre.subProps[2]
  /\ Post.subProps[2].v # StringValue("King")

\* C14: each of EqualsTo, StartsWith, EndsWith, Contains, GreaterThan and
\* LessThan, on a property in any state and with any argument, returns false
\* and the error Internal("incompatible operation"), and leaves the children,
\* the touched state and the hash as they were.
C14_RelationalIncompatible ==
  /\ last.op \in RelationalOps =>
        /\ last.ret = FALSE
        /\ last.err = Internal("incompatible operation")
        /\ Post.subProps = last.pre.subProps
        /\ Touched(Post) = Touched(last.pre)
        /\ Post.hash = last.pre.hash
  /\ \A i \in DOMAIN props, op \in RelationalOps, value \in Scalars \cup ContainerArguments :
        Relational(op, props[i], value) = [ret |-> FALSE, err |-> Internal("incompatible operation")]

\* C14's case: Contains has returned on a property holding values whose
\* hash is cached.
C14_Witness ==
  /\ last.op = "Contains"
  /\ last.arg = StringValue("Ada")
  /\ last.err.kind = "Internal"
  /\ Present(last.pre)
  /\ last.pre.hash # Zero64

\* C18 (as claimed): when Add or Delete has been called on a child taken by
\* ChildAtIndex, the parent's next Hash() is the digest of the children as
\* they are now.
C18_HashFollowsChildren ==
  last.op \in {"ChildAdd", "ChildDelete"} => Hash(Post) = Digest(Post)

\* C19 (as claimed): an Add of a mapping returns the same error and leaves
\* the same children, touched state and hash whatever order its keys are
\* iterated in.
C19_AddWhateverTheOrder ==
  (last.op = "Add" /\ last.arg.kind = "mapping") =>
     \A order \in Orders(last.arg) :
        Add(last.pre, last.arg, order) = [prop |-> Post, err |-> last.err]

\* C15: Copy() of nil returns nil and changes nothing; Copy() of an
\* Attribute returns a new Attribute whose tree equals the receiver's and
\* reaches no object the receiver reaches, and the receiver's tree is as it
\* was before the call whatever the caller has since written to the objects
\* reached from the copy.
C15_CopyIsDeepAndIndependent ==
  last.op = "Copy" =>
     IF last.p = 0
     THEN last.ret = 0 /\ last.err = NoError /\ heap = last.pre
     ELSE LET r == Copy(last.pre, last.p)
          IN /\ last.err = NoError
             /\ last.ret = r.ret
             /\ last.ret \notin 0..Len(last.pre.attrs)
             /\ Tree(r.heap, r.ret) = Tree(last.pre, last.p)
             /\ Reach(r.heap, r.ret) \cap Reach(r.heap, last.p) = {}
             /\ last.written = {} => heap = r.heap
             /\ last.written \subseteq Reach(r.heap, r.ret)
             /\ Tree(heap, last.p) = Tree(last.pre, last.p)

\* C15's case: the schema with a sub-attribute that has a sub-attribute was
\* copied, and the caller has written the Name of the Attribute two levels
\* below the copy; the receiver has kept its own.
C15_Witness ==
  /\ last.op = "Copy"
  /\ last.p = 1
  /\ Len(last.pre.attrs) = 3
  /\ last.written # {}
  /\ Len(Tree(last.pre, 1).SubAttributes) = 1
  /\ Tree(heap, last.ret).SubAttributes[1].SubAttributes[1].Name = "nickName"
  /\ Tree(heap, last.p).SubAttributes[1].SubAttributes[1].Name = "givenName"

\* The result of the derivation named op.
Derived(op, h, attr) ==
  IF op = "ToSingleValued" THEN ToSingleValued(h, attr) ELSE ToOptional(h, attr)

\* The flag the derivation named op clears.
DerivedFlag(op, a) == IF op = "ToSingleValued" THEN a.MultiValued ELSE a.Required

\* C16: ToSingleValued() and ToOptional() change no object of the heap;
\* when the flag is false already they return the receiver, else a new
\* Attribute with the receiver's fields, its slices and Metadata pointer
\* among them, and the flag false; what is reached from the new Attribute
\* below it is what is reached from the receiver below it.
C16_DerivedFormsShare ==
  (last.op \in {"ToSingleValued", "ToOptional"} /\ last.p # 0) =>
     LET a == last.pre.attrs[last.p]
         r == Derived(last.op, last.pre, last.p)
     IN /\ last.ret = r.ret
        /\ last.written = {} => heap = r.heap
        /\ SubSeq(r.heap.attrs, 1, Len(last.pre.attrs)) = last.pre.attrs
        /\ r.heap.arrays = last.pre.arrays
        /\ r.heap.metas = last.pre.metas
        /\ ~DerivedFlag(last.op, a) => last.ret = last.p /\ r.heap = last.pre
        /\ DerivedFlag(last.op, a) =>
              /\ last.ret = Len(last.pre.attrs) + 1
              /\ r.heap.attrs[last.ret] =
                    IF last.op = "ToSingleValued"
                    THEN [a EXCEPT !.MultiValued = FALSE]
                    ELSE [a EXCEPT !.Required = FALSE]
              /\ heap.attrs[last.ret].SubAttributes = heap.attrs[last.p].SubAttributes
              /\ heap.attrs[last.ret].Metadata = heap.attrs[last.p].Metadata
              /\ Reach(heap, last.ret) \ {<<"attr", last.ret>>}
                    = Reach(heap, last.p) \ {<<"attr", last.p>>}

\* C16's case: ToSingleValued() returned a new Attribute for a multi-valued
\* one, and what the caller then wrote to a sub-attribute of it shows in the
\* receiver.
C16_Witness ==
  /\ last.op = "ToSingleValued"
  /\ last.p # 0
  /\ last.ret # last.p
  /\ last.pre.attrs[last.p].MultiValued
  /\ ~heap.attrs[last.ret].MultiValued
  /\ heap.attrs[last.p].MultiValued
  /\ last.written # {}
  /\ <<"attr", last.ret>> \notin last.written
  /\ Tree(heap, last.p) # Tree(last.pre, last.p)

\* A byte with its letter in upper case.
UpperByte(b) == IF b >= 97 /\ b <= 122 THEN b - 32 ELSE b

\* Two strings are equal but for the case of their letters.
SameIgnoringCase(a, b) ==
  /\ Len(Bytes(a)) = Len(Bytes(b))
  /\ \A i \in 1..Len(Bytes(a)) : UpperByte(Bytes(a)[i]) = UpperByte(Bytes(b)[i])

\* C17: GoesBy(n) is true exactly when the receiver is not nil and n is its
\* Name but for the case of the letters, and changes nothing; on nil,
\* GoesBy returns false, ToSingleValued, ToOptional and Copy return nil,
\* setDefaults returns, and none fails or changes anything.
C17_GoesByIgnoresCase ==
  /\ last.op = "GoesBy" =>
        /\ last.ret = (last.p # 0 /\ SameIgnoringCase(last.arg.val, last.pre.attrs[last.p].Name))
        /\ last.err = NoError
        /\ heap = last.pre
  /\ (last.op \in {"GoesBy", "setDefaults", "ToSingleValued", "ToOptional", "Copy"}
        /\ last.p = 0 /\ last.written = {}) =>
        /\ last.err = NoError
        /\ heap = last.pre
        /\ last.ret = IF last.op = "GoesBy" THEN FALSE ELSE 0
  /\ \A attr \in 1..Len(heap.attrs) :
        \A name \in Names : SameIgnoringCase(name, heap.attrs[attr].Name) => GoesBy(heap, attr, name)

\* C17's case: GoesBy("FAMILYNAME") has returned true on familyName.
C17_Witness ==
  /\ last.op = "GoesBy"
  /\ last.p # 0
  /\ last.arg = StringValue("FAMILYNAME")
  /\ heap.attrs[last.p].Name = "familyName"
  /\ last.ret = TRUE

=============================================================================
